---------------------------- MODULE Spec2Model ----------------------------
(* A model of the mixpanel-go client: client construction from functional  *)
(* options, Event construction and enrichment over shared property maps,   *)
(* and the request/response cycle of Track, Import, the people and group   *)
(* calls and ListLookupTables.                                             *)
EXTENDS Integers, Sequences, FiniteSets, Bags, TLC

VARIABLES args, mp, heap, events, steps, calls, last

vars == <<args, mp, heap, events, steps, calls, last>>

-----------------------------------------------------------------------------
(* Bounds of the model.                                                    *)

MaxOpts == 2

MaxSteps == 4

MaxCalls == 2

-----------------------------------------------------------------------------
(* Constants of mixpanel.go and ingestion.go.                              *)

version == "v0.0.1"
usEndpoint == "https://api.mixpanel.com"
usDataEndpoint == "https://data.mixpanel.com"
euEndpoint == "https://api-eu.mixpanel.com"
euDataEndpoint == "https://data-eu.mixpanel"
EmptyDistinctID == ""
propertyToken == "token"
propertyDistinctID == "distinct_id"
propertyIP == "ip"
propertyInsertID == "$insert_id"
propertyTime == "time"
propertyMpLib == "mp_lib"
goLib == "go"
propertyLibVersion == "$lib_version"
acceptPlainTextHeader == "text/plain"
acceptJsonHeader == "application/json"

None == 0
Gzip == 1

trackURL == "/track"
importURL == "/import"
peopleSetURL == "/engage#profile-set"
groupsDeleteGroupUrl == "/groups#group-delete"
lookupTablesUrl == "/lookup-tables"

MethodPost == "POST"
MethodGet == "GET"
StatusOK == 200
StatusBadRequest == 400
StatusUnauthorized == 401
StatusRequestEntityTooLarge == 413
StatusTooManyRequests == 429

-----------------------------------------------------------------------------
(* A pointer that may be nil is a set of at most one element.              *)

Nil == {}
Ref(x) == {x}
Deref(p) == CHOOSE x \in p : TRUE

-----------------------------------------------------------------------------
(* Client construction: Options and NewClient.                             *)

DefaultClient == "http.DefaultClient"

\* An Options closure, by the constructor that made it and what it captured.
HttpClient(client) == [opt |-> "HttpClient", a |-> client, b |-> ""]
EuResidency == [opt |-> "EuResidency", a |-> "", b |-> ""]
ProxyApiLocation(proxy) == [opt |-> "ProxyApiLocation", a |-> proxy, b |-> ""]
ProxyDataLocation(proxy) == [opt |-> "ProxyDataLocation", a |-> proxy, b |-> ""]
SetServiceAccount(username, secret) ==
    [opt |-> "SetServiceAccount", a |-> username, b |-> secret]
DebugHttpCalls == [opt |-> "DebugHttpCalls", a |-> "", b |-> ""]

\* o(mp): the closure's body.
ApplyOption(m, o) ==
    CASE o.opt = "HttpClient" -> [m EXCEPT !.client = o.a]
      [] o.opt = "EuResidency" ->
            [m EXCEPT !.apiEndpoint = euEndpoint, !.dataEndpoint = euDataEndpoint]
      [] o.opt = "ProxyApiLocation" -> [m EXCEPT !.apiEndpoint = o.a]
      [] o.opt = "ProxyDataLocation" -> [m EXCEPT !.dataEndpoint = o.a]
      [] o.opt = "SetServiceAccount" ->
            [m EXCEPT !.serviceAccount = Ref([Username |-> o.a, Secret |-> o.b])]
      [] o.opt = "DebugHttpCalls" -> [m EXCEPT !.debugHttp = TRUE]

\* for _, o := range options { o(mp) }
RECURSIVE ApplyOptions(_, _)
ApplyOptions(m, options) ==
    IF options = <<>> THEN m
    ELSE ApplyOptions(ApplyOption(m, Head(options)), Tail(options))

\* The same loop run from the last option to the first.
RECURSIVE ApplyOptionsBackwards(_, _)
ApplyOptionsBackwards(m, options) ==
    IF options = <<>> THEN m
    ELSE ApplyOptionsBackwards(ApplyOption(m, options[Len(options)]),
                               SubSeq(options, 1, Len(options) - 1))

NewClientBackwards(projectID, token, secret, options) ==
    ApplyOptionsBackwards(
        [projectID |-> projectID, client |-> DefaultClient,
         apiEndpoint |-> usEndpoint, dataEndpoint |-> usDataEndpoint,
         token |-> token, apiSecret |-> secret,
         serviceAccount |-> Nil, debugHttp |-> FALSE], options)

NewClient(projectID, token, secret, options) ==
    ApplyOptions(
        [projectID |-> projectID, client |-> DefaultClient,
         apiEndpoint |-> usEndpoint, dataEndpoint |-> usDataEndpoint,
         token |-> token, apiSecret |-> secret,
         serviceAccount |-> Nil, debugHttp |-> FALSE], options)

\* The client the operations run on.
m == Deref(mp)

-----------------------------------------------------------------------------
(* Inputs of construction.                                                 *)

ProxyURL == "http://localhost:8080"

OptionValues ==
    {HttpClient("customClient"), EuResidency, ProxyApiLocation(ProxyURL),
     ProxyDataLocation(ProxyURL), SetServiceAccount("sa-user", "sa-secret"),
     DebugHttpCalls}

RECURSIVE SeqsUpTo(_, _)
SeqsUpTo(S, n) ==
    IF n = 0 THEN {<<>>}
    ELSE LET shorter == SeqsUpTo(S, n - 1)
         IN shorter \cup {Append(s, x) : s \in shorter, x \in S}

ProjectIDs == {0, 7, 2834507, -15}

Token == "project-token"
Secret == "api-secret"

AllArgs ==
    [projectID : ProjectIDs, token : {Token}, secret : {Secret},
     options : SeqsUpTo(OptionValues, MaxOpts)]

\* The configurations the operations are exercised on.
ClientArgs ==
    {[projectID |-> 7, token |-> Token, secret |-> Secret, options |-> <<>>],
     [projectID |-> 2834507, token |-> Token, secret |-> Secret,
      options |-> <<EuResidency, SetServiceAccount("sa-user", "sa-secret")>>],
     [projectID |-> -15, token |-> Token, secret |-> Secret,
      options |-> <<ProxyApiLocation(ProxyURL), DebugHttpCalls>>]}

-----------------------------------------------------------------------------
(* strconv.Itoa, and the textual forms built on it.                        *)

Digits == <<"0", "1", "2", "3", "4", "5", "6", "7", "8", "9">>

RECURSIVE FormatUint(_)
FormatUint(n) ==
    IF n < 10 THEN Digits[n + 1]
    ELSE FormatUint(n \div 10) \o Digits[(n % 10) + 1]

Itoa(n) == IF n < 0 THEN "-" \o FormatUint(-n) ELSE FormatUint(n)

\* net.IP.String() of a 4-byte address; "<nil>" for the empty one.
RECURSIVE DottedDecimal(_)
DottedDecimal(bytes) ==
    IF Len(bytes) = 1 THEN Itoa(bytes[1])
    ELSE DottedDecimal(SubSeq(bytes, 1, Len(bytes) - 1)) \o "." \o Itoa(bytes[Len(bytes)])

IPString(ip) == IF ip = <<>> THEN "<nil>" ELSE DottedDecimal(ip)

\* time.Time.UnixMilli of an instant given as seconds and nanoseconds.
UnixMilli(t) == t.sec * 1000 + t.nsec \div 1000000

-----------------------------------------------------------------------------
(* Values of type any, and property maps on the heap.                      *)

\* A value of dynamic type t: a string, an int64, or a map[string]any held
\* by its heap address (0 is the nil map).
VString(s) == [t |-> "string", s |-> s, n |-> 0]
VInt64(n) == [t |-> "int64", s |-> "", n |-> n]
VMap(addr) == [t |-> "map", s |-> "", n |-> addr]
\* What decoding JSON into an any yields for a number and for null.
VFloat64(n) == [t |-> "float64", s |-> "", n |-> n]
VNil == [t |-> "nil", s |-> "", n |-> 0]

EmptyMap == [k \in {} |-> VString("")]

\* properties[k] = v
Put(props, k, v) ==
    [x \in DOMAIN props \cup {k} |-> IF x = k THEN v ELSE props[x]]

ReservedKeys == {propertyToken, propertyDistinctID, propertyMpLib, propertyLibVersion}

\* Assigns each reserved key only where the caller's map has none.
SetReservedIfAbsent(client, distinctID, properties) ==
    LET dflt == Put(Put(Put(Put(EmptyMap,
                   propertyToken, VString(client.token)),
                   propertyDistinctID, VString(distinctID)),
                   propertyMpLib, VString(goLib)),
                   propertyLibVersion, VString(version))
    IN [x \in DOMAIN properties \cup ReservedKeys |->
           IF x \in DOMAIN properties THEN properties[x] ELSE dflt[x]]

\* The four assignments of NewEvent, on the contents of the map.
SetReserved(client, distinctID, properties) ==
    Put(Put(Put(Put(properties,
        propertyToken, VString(client.token)),
        propertyDistinctID, VString(distinctID)),
        propertyMpLib, VString(goLib)),
        propertyLibVersion, VString(version))

\* What the heap holds at an address; the nil map reads as empty.
MapAt(addr) == IF addr = 0 THEN EmptyMap ELSE heap[addr]

PropertiesOf(e) == MapAt(e.Properties)

-----------------------------------------------------------------------------
(* Inputs of the Event operations.                                         *)

EventNames == {"signup"}
DistinctIDs == {EmptyDistinctID, "user-1"}
IdentityDistinctIDs == {"user-1"}
IdentifiedIDs == {"identified-1"}
AnonIDs == {"anon-1"}
InsertIDs == {"insert-1"}
IPs == {<<10, 0, 0, 1>>}
Times == {[sec |-> 1700, nsec |-> 123999999]}

CallerMaps ==
    {EmptyMap,
     ("color" :> VString("red") @@ propertyToken :> VString("caller-token")
        @@ propertyDistinctID :> VString("caller-id")
        @@ propertyMpLib :> VString("caller-lib")
        @@ propertyLibVersion :> VInt64(9))}

\* Raw maps handed to NewEventFromJson; a map value is a heap address.
JsonInputs ==
    {EmptyMap, ("event" :> VString("page_view"))}
    \cup {("event" :> VString("page_view") @@ "properties" :> VString("text"))}
    \cup {("event" :> VInt64(5) @@ "properties" :> VMap(0))}
    \cup {("event" :> VString("page_view") @@ "properties" :> VMap(a)) :
            a \in 0..Len(heap)}

-----------------------------------------------------------------------------
(* Event construction and enrichment.                                      *)

NoOp == [op |-> "none"]

\* A caller allocates a map of its own.
CallerMakeMap(content) ==
    /\ mp # Nil
    /\ steps < MaxSteps
    /\ heap' = Append(heap, content)
    /\ last' = [op |-> "CallerMakeMap", ret |-> Len(heap) + 1]
    /\ steps' = steps + 1
    /\ UNCHANGED <<args, mp, events, calls>>

\* NewEvent writing the reserved keys into a copy of the caller's map.
NewEventHeapCopying(distinctID, properties) ==
    Append(heap, SetReserved(m, distinctID, MapAt(properties)))

\* NewEvent up to the construction of the Event value: the heap with the
\* reserved keys written, and the address the Event holds.
NewEventHeap(distinctID, properties) ==
    IF properties = 0
    THEN Append(heap, SetReserved(m, distinctID, EmptyMap))
    ELSE [heap EXCEPT ![properties] = SetReserved(m, distinctID, @)]

NewEventAddr(properties) == IF properties = 0 THEN Len(heap) + 1 ELSE properties

NewEvent(name, distinctID, properties) ==
    /\ mp # Nil
    /\ steps < MaxSteps
    /\ heap' = NewEventHeap(distinctID, properties)
    /\ events' = Append(events, [Name |-> name,
                                 Properties |-> NewEventAddr(properties),
                                 via |-> "NewEvent"])
    /\ last' = [op |-> "NewEvent", name |-> name, distinctID |-> distinctID,
                properties |-> properties, pre |-> MapAt(properties),
                ret |-> Len(events) + 1]
    /\ steps' = steps + 1
    /\ UNCHANGED <<args, mp, calls>>

NewIdentityEvent(distinctID, properties, identifiedId, anonId) ==
    /\ mp # Nil
    /\ steps < MaxSteps
    /\ LET h == NewEventHeap(distinctID, properties)
           a == NewEventAddr(properties)
       IN heap' = [h EXCEPT ![a] =
                     Put(Put(@, "$identified_id", VString(identifiedId)),
                         "$anon_id", VString(anonId))]
    /\ events' = Append(events, [Name |-> "$identify",
                                 Properties |-> NewEventAddr(properties),
                                 via |-> "NewIdentityEvent"])
    /\ last' = [op |-> "NewIdentityEvent", distinctID |-> distinctID,
                properties |-> properties, pre |-> MapAt(properties),
                ret |-> Len(events) + 1]
    /\ steps' = steps + 1
    /\ UNCHANGED <<args, mp, calls>>

\* json[key].(T): the type assertion with ok.
AssertType(json, key, type) == key \in DOMAIN json /\ json[key].t = type

\* The two checks looking only for the presence of the keys.
NewEventFromJsonErrorByPresence(json) ==
    IF "event" \notin DOMAIN json
    THEN Ref("event name is not a string or is missing")
    ELSE IF "properties" \notin DOMAIN json
    THEN Ref("event properties is not a map or is missing")
    ELSE Nil

NewEventFromJsonError(json) ==
    IF ~AssertType(json, "event", "string")
    THEN Ref("event name is not a string or is missing")
    ELSE IF ~AssertType(json, "properties", "map")
    THEN Ref("event properties is not a map or is missing")
    ELSE Nil

NewEventFromJson(json) ==
    /\ mp # Nil
    /\ steps < MaxSteps
    /\ IF NewEventFromJsonError(json) # Nil
       THEN /\ events' = events
            /\ last' = [op |-> "NewEventFromJson", json |-> json, ret |-> 0,
                        err |-> NewEventFromJsonError(json)]
       ELSE /\ events' = Append(events, [Name |-> json["event"].s,
                                         Properties |-> json["properties"].n,
                                         via |-> "NewEventFromJson"])
            /\ last' = [op |-> "NewEventFromJson", json |-> json,
                        ret |-> Len(events) + 1, err |-> Nil]
    /\ steps' = steps + 1
    /\ UNCHANGED <<args, mp, heap, calls>>

\* The enrichment storing a map of its own in the Event's place.
SetPropertyInFreshMap(op, e, k, v) ==
    /\ steps < MaxSteps
    /\ e \in 1..Len(events)
    /\ IF events[e].Properties = 0
       THEN /\ heap' = heap
            /\ last' = [op |-> op, event |-> e, panic |-> TRUE]
       ELSE /\ heap' = [heap EXCEPT ![events[e].Properties] = Put(EmptyMap, k, v)]
            /\ last' = [op |-> op, event |-> e, panic |-> FALSE]
    /\ steps' = steps + 1
    /\ UNCHANGED <<args, mp, events, calls>>

\* e.Properties[k] = v; the assignment panics on a nil map.
SetProperty(op, e, k, v) ==
    /\ steps < MaxSteps
    /\ e \in 1..Len(events)
    /\ IF events[e].Properties = 0
       THEN /\ heap' = heap
            /\ last' = [op |-> op, event |-> e, panic |-> TRUE]
       ELSE /\ heap' = [heap EXCEPT ![events[e].Properties] = Put(@, k, v)]
            /\ last' = [op |-> op, event |-> e, panic |-> FALSE]
    /\ steps' = steps + 1
    /\ UNCHANGED <<args, mp, events, calls>>

AddTime(e, t) == SetProperty("AddTime", e, propertyTime, VInt64(UnixMilli(t)))

AddInsertID(e, insertID) ==
    SetProperty("AddInsertID", e, propertyInsertID, VString(insertID))

AddIP(e, ip) == SetProperty("AddIP", e, propertyIP, VString(IPString(ip)))

-----------------------------------------------------------------------------
(* Response bodies and json.NewDecoder(body).Decode(&v).                   *)

\* A JSON value: a number, a string, or an array of objects. An object is a
\* function from its keys to JSON values.
JNumber(n) == [t |-> "number", n |-> n, s |-> "", a |-> <<>>]
JString(s) == [t |-> "string", n |-> 0, s |-> s, a |-> <<>>]
JArray(a) == [t |-> "array", n |-> 0, s |-> "", a |-> a]

EmptyDoc == [k \in {} |-> JNumber(0)]

\* A body, as the decoder meets it: syntax says whether the text is one
\* valid JSON value ("valid"), one valid value followed by other text
\* ("trailing"), no value at all ("empty") or a broken value ("invalid");
\* top is the kind of the first value and doc its members when an object.
Body(syntax, top, doc) == [syntax |-> syntax, top |-> top, doc |-> doc]

\* The error of reading and unmarshalling the first value into a struct
\* whose int fields are ints, string fields strs and slice fields arrays;
\* "" when there is none. Decode never looks past the first value.
DecodeErr(body, ints, strs, arrays) ==
    CASE body.syntax = "empty" -> "EOF"
      [] body.syntax = "invalid" -> "json.SyntaxError"
      [] body.top = "null" -> ""
      [] body.top # "object" -> "json.UnmarshalTypeError"
      [] \E k \in DOMAIN body.doc :
            \/ k \in ints /\ body.doc[k].t # "number"
            \/ k \in strs /\ body.doc[k].t # "string"
            \/ k \in arrays /\ body.doc[k].t # "array" -> "json.UnmarshalTypeError"
      [] OTHER -> ""

\* The members the struct is filled from; null leaves the zero value.
Members(body) == IF body.top = "object" THEN body.doc ELSE EmptyDoc

IntField(doc, k) == IF k \in DOMAIN doc THEN doc[k].n ELSE 0
StringField(doc, k) == IF k \in DOMAIN doc THEN doc[k].s ELSE ""
AnyField(doc, k) == IF k \in DOMAIN doc THEN Ref(doc[k]) ELSE Nil
ArrayField(doc, k) == IF k \in DOMAIN doc THEN doc[k].a ELSE <<>>

\* type ImportFailedRecords
DecodeImportFailedRecords(doc) ==
    [Index |-> IntField(doc, "index"), InsertID |-> IntField(doc, "insert_id"),
     Field |-> StringField(doc, "field"), Message |-> StringField(doc, "message")]

FailedRecordsErr(body) ==
    IF DecodeErr(body, {"code", "num_records_imported"}, {"error"},
                 {"failed_records"}) # ""
    THEN DecodeErr(body, {"code", "num_records_imported"}, {"error"},
                   {"failed_records"})
    ELSE IF \E i \in 1..Len(ArrayField(Members(body), "failed_records")) :
               LET r == ArrayField(Members(body), "failed_records")[i]
               IN \E k \in DOMAIN r :
                     \/ k \in {"index", "insert_id"} /\ r[k].t # "number"
                     \/ k \in {"field", "message"} /\ r[k].t # "string"
    THEN "json.UnmarshalTypeError"
    ELSE ""

\* var s ImportSuccess; Decode(&s)
DecodeImportSuccess(body) ==
    [err |-> DecodeErr(body, {"code", "num_records_imported"}, {}, {}),
     v |-> [Code |-> IntField(Members(body), "code"),
            NumRecordsImported |-> IntField(Members(body), "num_records_imported"),
            Status |-> AnyField(Members(body), "status")]]

\* var g ImportFailedValidationError; Decode(&g)
DecodeImportFailedValidationError(body) ==
    [err |-> FailedRecordsErr(body),
     v |-> [Code |-> IntField(Members(body), "code"),
            ApiError |-> StringField(Members(body), "error"),
            Status |-> AnyField(Members(body), "status"),
            NumRecordsImported |-> IntField(Members(body), "num_records_imported"),
            FailedImportRecords |->
                [i \in 1..Len(ArrayField(Members(body), "failed_records")) |->
                    DecodeImportFailedRecords(
                        ArrayField(Members(body), "failed_records")[i])]]]

\* var g ImportGenericError; Decode(&g)  (LookupTableError has the same fields)
DecodeGenericError(body) ==
    [err |-> DecodeErr(body, {"code"}, {"error"}, {}),
     v |-> [Code |-> IntField(Members(body), "code"),
            ApiError |-> StringField(Members(body), "error"),
            Status |-> AnyField(Members(body), "status")]]

\* type LookupTableResults
DecodeLookupTableResults(doc) ==
    [ID |-> StringField(doc, "id"), Name |-> StringField(doc, "name")]

LookupResultsErr(body) ==
    IF DecodeErr(body, {"code"}, {"status"}, {"results"}) # ""
    THEN DecodeErr(body, {"code"}, {"status"}, {"results"})
    ELSE IF \E i \in 1..Len(ArrayField(Members(body), "results")) :
               LET r == ArrayField(Members(body), "results")[i]
               IN \E k \in DOMAIN r : k \in {"id", "name"} /\ r[k].t # "string"
    THEN "json.UnmarshalTypeError"
    ELSE ""

\* var result LookupTable; Decode(&result)
DecodeLookupTable(body) ==
    [err |-> LookupResultsErr(body),
     v |-> [Code |-> IntField(Members(body), "code"),
            Status |-> StringField(Members(body), "status"),
            Results |->
                [i \in 1..Len(ArrayField(Members(body), "results")) |->
                    DecodeLookupTableResults(
                        ArrayField(Members(body), "results")[i])]]]

-----------------------------------------------------------------------------
(* An Event through JSON and back.                                         *)

\* json.Marshal of an Event under its field tags: the name as a JSON
\* string, a nil Properties map as null and any other as an object of its
\* members, a string as a JSON string and an int64 as a JSON number.
MarshalEvent(e) ==
    [event |-> JString(e.Name),
     null |-> e.Properties = 0,
     properties |->
        [k \in DOMAIN PropertiesOf(e) |->
            IF PropertiesOf(e)[k].t = "string"
            THEN JString(PropertiesOf(e)[k].s)
            ELSE JNumber(PropertiesOf(e)[k].n)]]

\* json.Unmarshal of a JSON object into a map[string]any: a string stays a
\* string and every number becomes a float64.
UnmarshalObject(doc) ==
    [k \in DOMAIN doc |->
        IF doc[k].t = "string" THEN VString(doc[k].s) ELSE VFloat64(doc[k].n)]

\* json.Unmarshal of a marshalled Event into a map[string]any, the map of
\* its properties allocated at addr; null leaves a nil any.
UnmarshalEvent(j, addr) ==
    "event" :> VString(j.event.s)
    @@ "properties" :> (IF j.null THEN VNil ELSE VMap(addr))

\* A caller marshals an Event, unmarshals the text into a raw map and hands
\* that to NewEventFromJson.
RoundTrip(e) ==
    /\ mp # Nil
    /\ steps < MaxSteps
    /\ e \in 1..Len(events)
    /\ LET j == MarshalEvent(events[e])
           json == UnmarshalEvent(j, Len(heap) + 1)
       IN /\ heap' = IF j.null THEN heap
                      ELSE Append(heap, UnmarshalObject(j.properties))
          /\ IF NewEventFromJsonError(json) # Nil
             THEN /\ events' = events
                  /\ last' = [op |-> "RoundTrip", event |-> e, json |-> json,
                              ret |-> 0, err |-> NewEventFromJsonError(json)]
             ELSE /\ events' = Append(events, [Name |-> json["event"].s,
                                               Properties |-> json["properties"].n,
                                               via |-> "NewEventFromJson"])
                  /\ last' = [op |-> "RoundTrip", event |-> e, json |-> json,
                              ret |-> Len(events) + 1, err |-> Nil]
    /\ steps' = steps + 1
    /\ UNCHANGED <<args, mp, calls>>

-----------------------------------------------------------------------------
(* Errors.                                                                 *)

\* An error value by its dynamic type: msg is the text the code formats,
\* wraps the cause kept by %w ("" when none), v the struct for the typed
\* API errors.
ErrorsNew(msg) == [type |-> "*errors.errorString", msg |-> msg, wraps |-> "", v |-> Nil]
WrapError(msg, cause) == [type |-> "*fmt.wrapError", msg |-> msg, wraps |-> cause, v |-> Nil]
ApiError(type, v) == [type |-> type, msg |-> v.ApiError, wraps |-> "", v |-> Ref(v)]

-----------------------------------------------------------------------------
(* Composing a request.                                                    *)

\* url.Values and Values.Add: each key holds the list of values added.
EmptyValues == [k \in {} |-> <<>>]

ValuesAdd(values, key, value) ==
    [k \in DOMAIN values \cup {key} |->
        IF k = key
        THEN (IF key \in DOMAIN values THEN Append(values[key], value) ELSE <<value>>)
        ELSE values[k]]

\* The request options a call passes to doRequest.
addQueryParams(values) == [o |-> "addQueryParams", values |-> values]
acceptPlainText == [o |-> "acceptPlainText", values |-> EmptyValues]
acceptJson == [o |-> "acceptJson", values |-> EmptyValues]
useServiceAccount == [o |-> "useServiceAccount", values |-> EmptyValues]

\* One request option applied to the request being built. The service
\* account is attached when the client has one and left off otherwise.
ApplyHttpOption(client, req, o) ==
    CASE o.o = "addQueryParams" -> [req EXCEPT !.query = o.values]
      [] o.o = "acceptPlainText" -> [req EXCEPT !.accept = acceptPlainTextHeader]
      [] o.o = "acceptJson" -> [req EXCEPT !.accept = acceptJsonHeader]
      [] o.o = "useServiceAccount" ->
            IF client.serviceAccount # Nil
            THEN [req EXCEPT !.basicAuth = client.serviceAccount]
            ELSE req

RECURSIVE ApplyHttpOptions(_, _, _)
ApplyHttpOptions(client, req, httpOptions) ==
    IF httpOptions = <<>> THEN req
    ELSE ApplyHttpOptions(client, ApplyHttpOption(client, req, Head(httpOptions)),
                          Tail(httpOptions))

\* The arguments of a doRequest call.
DoRequestArgs(method, url, body, compression, httpOptions) ==
    [method |-> method, url |-> url, body |-> body, compression |-> compression,
     httpOptions |-> httpOptions]

\* The request doRequest hands to the HTTP client: the body encoded under
\* the compression mode, the options applied in order.
ComposeRequest(client, a) ==
    ApplyHttpOptions(client,
        [client |-> client.client, method |-> a.method, url |-> a.url,
         body |-> a.body, compression |-> a.compression,
         contentEncoding |-> IF a.compression = Gzip THEN "gzip" ELSE "",
         query |-> EmptyValues, accept |-> "", basicAuth |-> Nil],
        a.httpOptions)

\* Track's call of doRequest with the service account asked for.
TrackRequestWithAccount(client, evs) ==
    DoRequestArgs(MethodPost, client.apiEndpoint \o trackURL, evs, None,
        <<addQueryParams(ValuesAdd(EmptyValues, "verbose", "1")), acceptPlainText,
          useServiceAccount>>)

\* Track's call of doRequest.
TrackRequest(client, evs) ==
    DoRequestArgs(MethodPost, client.apiEndpoint \o trackURL, evs, None,
        <<addQueryParams(ValuesAdd(EmptyValues, "verbose", "1")), acceptPlainText>>)

\* Import's query with strict written as "1" whatever the option says.
ImportValuesAlwaysStrict(client, options) ==
    ValuesAdd(ValuesAdd(ValuesAdd(EmptyValues,
        "strict", "1"),
        "project_id", Itoa(client.projectID)),
        "verbose", "1")

\* Import's query parameters.
ImportValues(client, options) ==
    ValuesAdd(ValuesAdd(ValuesAdd(EmptyValues,
        "strict", IF options.Strict THEN "1" ELSE "0"),
        "project_id", Itoa(client.projectID)),
        "verbose", "1")

\* Import's call of doRequest.
ImportRequest(client, evs, options) ==
    DoRequestArgs(MethodPost, client.apiEndpoint \o importURL, evs,
        options.Compression,
        <<addQueryParams(ImportValues(client, options)), acceptJson,
          useServiceAccount>>)

\* ListLookupTables' call of doRequest.
ListLookupTablesRequest(client) ==
    DoRequestArgs(MethodGet, client.apiEndpoint \o lookupTablesUrl, <<>>, None,
        <<addQueryParams(ValuesAdd(EmptyValues, "project_id",
                                   Itoa(client.projectID))), acceptJson>>)

\* People options, applied in order to the payload's options.
SetPeopleIP(ip) == [o |-> "SetPeopleIP", ip |-> ip, lat |-> 0, long |-> 0]
SetPeopleLatLong(lat, long) ==
    [o |-> "SetPeopleLatLong", ip |-> <<>>, lat |-> lat, long |-> long]

ApplyPeopleOption(p, o) ==
    IF o.o = "SetPeopleIP" THEN [p EXCEPT !.IP = IPString(o.ip)]
    ELSE [p EXCEPT !.Latitude = o.lat, !.Longitude = o.long]

RECURSIVE ApplyPeopleOptions(_, _)
ApplyPeopleOptions(p, options) ==
    IF options = <<>> THEN p
    ELSE ApplyPeopleOptions(ApplyPeopleOption(p, Head(options)), Tail(options))

\* PeopleSet's payload.
PeopleSetPayload(client, distinctID, properties, options) ==
    <<[Token |-> client.token, DistinctID |-> distinctID, Set |-> properties,
       peopleOptions |->
           ApplyPeopleOptions([IP |-> "", Latitude |-> 0, Longitude |-> 0], options)]>>

\* GroupDelete's payload.
GroupDeletePayload(client, groupKey, groupID) ==
    <<[Token |-> client.token, GroupKey |-> groupKey, GroupId |-> groupID,
       Delete |-> "null"]>>

\* doPeopleRequest's call of doRequest.
PeopleRequest(client, payload, u) ==
    DoRequestArgs(MethodPost, client.apiEndpoint \o u, payload, None, <<acceptJson>>)

-----------------------------------------------------------------------------
(* What doRequest returns, and what each call makes of it.                 *)

\* doRequest's two results: an error and no response, or a response.
TransportFailure(cause) == [err |-> cause, response |-> Nil]
Responded(status, body) ==
    [err |-> "", response |-> Ref([StatusCode |-> status, Body |-> body])]

\* What a call returns: the value and the error (each nil or not), how many
\* times it closed the response body, and whether it read from it.
Returned(ret, err, closed, read) ==
    [ret |-> ret, err |-> err, closed |-> closed, read |-> read]

\* case http.StatusOK, with the decoder's error dropped.
ImportOKIgnoringError(body) ==
    Returned(Ref(DecodeImportSuccess(body).v), Nil, 1, TRUE)

\* case http.StatusOK
ImportOK(body) ==
    IF DecodeImportSuccess(body).err # ""
    THEN Returned(Nil, Ref(WrapError("failed to parse response body:",
                                     DecodeImportSuccess(body).err)), 1, TRUE)
    ELSE Returned(Ref(DecodeImportSuccess(body).v), Nil, 1, TRUE)

\* case http.StatusBadRequest, decoded into the generic error.
ImportBadRequestAsGeneric(body) ==
    IF DecodeGenericError(body).err # ""
    THEN Returned(Nil, Ref(WrapError("failed to json decode response body: ",
                                     DecodeGenericError(body).err)), 1, TRUE)
    ELSE Returned(Nil, Ref(ApiError("ImportGenericError",
                                    DecodeGenericError(body).v)), 1, TRUE)

\* case http.StatusBadRequest
ImportBadRequest(body) ==
    IF DecodeImportFailedValidationError(body).err # ""
    THEN Returned(Nil, Ref(WrapError("failed to json decode response body: ",
                                     DecodeImportFailedValidationError(body).err)),
                  1, TRUE)
    ELSE Returned(Nil, Ref(ApiError("ImportFailedValidationError",
                                    DecodeImportFailedValidationError(body).v)),
                  1, TRUE)

\* case http.StatusUnauthorized, http.StatusRequestEntityTooLarge,
\*      http.StatusTooManyRequests
ImportGeneric(body) ==
    IF DecodeGenericError(body).err # ""
    THEN Returned(Nil, Ref(WrapError("failed to json decode response body: ",
                                     DecodeGenericError(body).err)), 1, TRUE)
    ELSE Returned(Nil, Ref(ApiError("ImportGenericError",
                                    DecodeGenericError(body).v)), 1, TRUE)

\* default, returning with the body left open.
UnexpectedStatusUnclosed(status) ==
    Returned(Nil, Ref(ErrorsNew("unexpected status code: " \o Itoa(status))), 0, FALSE)

\* default
UnexpectedStatus(status) ==
    Returned(Nil, Ref(ErrorsNew("unexpected status code: " \o Itoa(status))), 1, FALSE)

\* Import from the return of doRequest on.
ImportResult(outcome) ==
    IF outcome.err # ""
    THEN Returned(Nil, Ref(WrapError("failed to import:", outcome.err)), 0, FALSE)
    ELSE LET r == Deref(outcome.response)
         IN CASE r.StatusCode = StatusOK -> ImportOK(r.Body)
              [] r.StatusCode = StatusBadRequest -> ImportBadRequest(r.Body)
              [] r.StatusCode \in {StatusUnauthorized, StatusRequestEntityTooLarge,
                                   StatusTooManyRequests} -> ImportGeneric(r.Body)
              [] OTHER -> UnexpectedStatus(r.StatusCode)

\* case http.StatusOK
LookupOK(body) ==
    IF DecodeLookupTable(body).err # ""
    THEN Returned(Nil, Ref(WrapError("failed to decode results: ",
                                     DecodeLookupTable(body).err)), 1, TRUE)
    ELSE Returned(Ref(DecodeLookupTable(body).v), Nil, 1, TRUE)

\* case http.StatusUnauthorized
LookupUnauthorized(body) ==
    IF DecodeGenericError(body).err # ""
    THEN Returned(Nil, Ref(WrapError("failed to decode error response:",
                                     DecodeGenericError(body).err)), 1, TRUE)
    ELSE Returned(Nil, Ref(ApiError("LookupTableError",
                                    DecodeGenericError(body).v)), 1, TRUE)

\* ListLookupTables with the import statuses 413 and 429 decoded like 401.
ListLookupTablesResultLikeImport(outcome) ==
    IF outcome.err # ""
    THEN Returned(Nil, Ref(ErrorsNew("failed to call list lookup tables: "
                                     \o outcome.err)), 0, FALSE)
    ELSE LET r == Deref(outcome.response)
         IN CASE r.StatusCode = StatusOK -> LookupOK(r.Body)
              [] r.StatusCode \in {StatusUnauthorized, StatusRequestEntityTooLarge,
                                   StatusTooManyRequests} -> LookupUnauthorized(r.Body)
              [] OTHER -> UnexpectedStatus(r.StatusCode)

\* ListLookupTables from the return of doRequest on; %v formats the
\* transport error into the text.
ListLookupTablesResult(outcome) ==
    IF outcome.err # ""
    THEN Returned(Nil, Ref(ErrorsNew("failed to call list lookup tables: "
                                     \o outcome.err)), 0, FALSE)
    ELSE LET r == Deref(outcome.response)
         IN CASE r.StatusCode = StatusOK -> LookupOK(r.Body)
              [] r.StatusCode = StatusUnauthorized -> LookupUnauthorized(r.Body)
              [] OTHER -> UnexpectedStatus(r.StatusCode)

\* returnVerboseError: the body "1" with status 200 is success; anything
\* else is the verbose envelope when it decodes, the bare status otherwise.
ReturnVerboseError(r) ==
    IF r.StatusCode = StatusOK /\ r.Body.syntax = "valid" /\ r.Body.top = "one"
    THEN Nil
    ELSE IF DecodeGenericError(r.Body).err = "" /\ r.Body.top = "object"
    THEN Ref(ApiError("VerboseError", DecodeGenericError(r.Body).v))
    ELSE Ref(ErrorsNew("unexpected status code: " \o Itoa(r.StatusCode)))

\* Track from the return of doRequest on.
TrackResult(outcome) ==
    IF outcome.err # ""
    THEN Returned(Nil, Ref(WrapError("failed to track event: ", outcome.err)), 0, FALSE)
    ELSE Returned(Nil, ReturnVerboseError(Deref(outcome.response)), 1, TRUE)

\* doPeopleRequest from the return of doRequest on.
PeopleResult(outcome) ==
    IF outcome.err # ""
    THEN Returned(Nil, Ref(WrapError("failed to post request: ", outcome.err)), 0, FALSE)
    ELSE Returned(Nil, ReturnVerboseError(Deref(outcome.response)), 1, TRUE)

-----------------------------------------------------------------------------
(* Inputs of the calls, and what the network may answer.                   *)

ImportOptionValues == [Strict : BOOLEAN, Compression : {None, Gzip}]

ImportOptionsRecommend == [Strict |-> TRUE, Compression |-> Gzip]

EventBatches ==
    {<<[Name |-> "signup",
        Properties |-> SetReserved([token |-> Token], "user-1", EmptyMap)]>>}

PeopleProperties == ("plan" :> VString("pro"))
PeopleOptionLists == {<<SetPeopleIP(<<10, 0, 0, 1>>), SetPeopleLatLong(52, 13)>>}
GroupKeys == {"company"}
GroupIDs == {"acme"}

SuccessBody ==
    Body("valid", "object",
         "code" :> JNumber(200) @@ "num_records_imported" :> JNumber(2)
         @@ "status" :> JNumber(1))

ValidationBody ==
    Body("valid", "object",
         "code" :> JNumber(400)
         @@ "error" :> JString("some data points in the request failed validation")
         @@ "failed_records" :>
              JArray(<<("index" :> JNumber(0) @@ "insert_id" :> JNumber(13)
                        @@ "field" :> JString("properties.time")
                        @@ "message" :> JString("'properties.time' is invalid"))>>)
         @@ "num_records_imported" :> JNumber(1)
         @@ "status" :> JString("Bad Request"))

UnauthorizedBody ==
    Body("valid", "object",
         "code" :> JNumber(401) @@ "error" :> JString("Unauthorized")
         @@ "status" :> JString("error"))

RateLimitedBody ==
    Body("valid", "object",
         "code" :> JNumber(429) @@ "error" :> JString("rate limited")
         @@ "status" :> JString("error"))

LookupBody ==
    Body("valid", "object",
         "code" :> JNumber(200) @@ "status" :> JString("OK")
         @@ "results" :>
              JArray(<<("id" :> JString("tbl-1") @@ "name" :> JString("countries"))>>))

\* Valid JSON whose members have other types than every struct expects.
MistypedBody ==
    Body("valid", "object",
         "code" :> JString("200") @@ "num_records_imported" :> JString("2"))

EmptyObjectBody == Body("valid", "object", EmptyDoc)
NullBody == Body("valid", "null", EmptyDoc)
OneBody == Body("valid", "one", EmptyDoc)
InvalidBody == Body("invalid", "object", EmptyDoc)
EmptyBody == Body("empty", "object", EmptyDoc)
\* A complete success object followed by text that is not JSON.
TrailingBody == Body("trailing", "object", SuccessBody.doc)

Bodies ==
    {SuccessBody, ValidationBody, UnauthorizedBody, RateLimitedBody, LookupBody,
     MistypedBody, EmptyObjectBody, NullBody, OneBody, InvalidBody, EmptyBody,
     TrailingBody}

Statuses ==
    {StatusOK, StatusBadRequest, StatusUnauthorized, StatusRequestEntityTooLarge,
     StatusTooManyRequests, 500}

TransportCauses == {"connection refused", "context canceled"}

\* Every answer: a transport failure, or any status with any body.
AllOutcomes ==
    {TransportFailure(c) : c \in TransportCauses}
    \cup {Responded(st, b) : st \in Statuses, b \in Bodies}

\* The answers the concurrent runs draw from.
Outcomes ==
    {TransportFailure(c) : c \in TransportCauses}
    \cup {Responded(StatusOK, SuccessBody), Responded(StatusOK, OneBody),
          Responded(StatusOK, LookupBody), Responded(StatusOK, InvalidBody),
          Responded(StatusBadRequest, ValidationBody),
          Responded(StatusUnauthorized, UnauthorizedBody),
          Responded(StatusTooManyRequests, RateLimitedBody),
          Responded(500, InvalidBody)}

-----------------------------------------------------------------------------
(* The calls: each composes its request and hands it to doRequest, and     *)
(* resumes when doRequest returns.                                         *)

CallOps == {"Track", "Import", "ListLookupTables", "PeopleSet", "GroupDelete"}

\* A call waiting in doRequest: what it passed, the request composed from
\* it, and how many requests it has handed over.
InFlight(op, options, a) ==
    [op |-> op, options |-> options, args |-> a, req |-> ComposeRequest(m, a),
     dispatched |-> 1]

Dispatch(call) ==
    /\ calls' = calls (+) SetToBag({call})
    /\ UNCHANGED <<args, heap, events, steps, last>>

\* The call returns to its caller.
Finish(call, outcome, result) ==
    /\ calls' = calls (-) SetToBag({call})
    /\ last' = [op |-> call.op, outcome |-> outcome, ret |-> result.ret,
                err |-> result.err, closed |-> result.closed,
                read |-> result.read, dispatched |-> call.dispatched]
    /\ UNCHANGED <<args, mp, heap, events, steps>>

TrackStart(evs) ==
    /\ mp # Nil
    /\ Dispatch(InFlight("Track", Nil, TrackRequest(m, evs)))
    /\ UNCHANGED mp

TrackReturn(call, outcome) ==
    /\ call.op = "Track"
    /\ Finish(call, outcome, TrackResult(outcome))

\* Import writing the composed URL back into the client.
ImportStartKeepingURL(evs, options) ==
    /\ mp # Nil
    /\ Dispatch(InFlight("Import", Ref(options), ImportRequest(m, evs, options)))
    /\ mp' = Ref([m EXCEPT !.apiEndpoint = @ \o importURL])

ImportStart(evs, options) ==
    /\ mp # Nil
    /\ Dispatch(InFlight("Import", Ref(options), ImportRequest(m, evs, options)))
    /\ UNCHANGED mp

\* Import sending its request once more when told to slow down.
ImportReturnRetrying(call, outcome) ==
    /\ call.op = "Import"
    /\ IF /\ outcome.response # Nil
          /\ Deref(outcome.response).StatusCode = StatusTooManyRequests
          /\ call.dispatched < 2
       THEN /\ calls' = (calls (-) SetToBag({call}))
                          (+) SetToBag({[call EXCEPT !.dispatched = @ + 1]})
            /\ UNCHANGED <<args, mp, heap, events, steps, last>>
       ELSE Finish(call, outcome, ImportResult(outcome))

ImportReturn(call, outcome) ==
    /\ call.op = "Import"
    /\ Finish(call, outcome, ImportResult(outcome))

ListLookupTablesStart ==
    /\ mp # Nil
    /\ Dispatch(InFlight("ListLookupTables", Nil, ListLookupTablesRequest(m)))
    /\ UNCHANGED mp

ListLookupTablesReturn(call, outcome) ==
    /\ call.op = "ListLookupTables"
    /\ Finish(call, outcome, ListLookupTablesResult(outcome))

PeopleSetStart(distinctID, properties, options) ==
    /\ mp # Nil
    /\ Dispatch(InFlight("PeopleSet", Nil,
           PeopleRequest(m, PeopleSetPayload(m, distinctID, properties, options),
                         peopleSetURL)))
    /\ UNCHANGED mp

GroupDeleteStart(groupKey, groupID) ==
    /\ mp # Nil
    /\ Dispatch(InFlight("GroupDelete", Nil,
           PeopleRequest(m, GroupDeletePayload(m, groupKey, groupID),
                         groupsDeleteGroupUrl)))
    /\ UNCHANGED mp

\* PeopleSet and GroupDelete return what doPeopleRequest returns.
PeopleReturn(call, outcome) ==
    /\ call.op \in {"PeopleSet", "GroupDelete"}
    /\ Finish(call, outcome, PeopleResult(outcome))

-----------------------------------------------------------------------------
(* Construction as an operation, and the specifications.                   *)

NewClientCall ==
    /\ mp = Nil
    /\ mp' = Ref(NewClient(args.projectID, args.token, args.secret, args.options))
    /\ last' = [op |-> "NewClient"]
    /\ UNCHANGED <<args, heap, events, steps, calls>>

InitWith(A) ==
    /\ args \in A
    /\ mp = Nil
    /\ heap = <<>>
    /\ events = <<>>
    /\ steps = 0
    /\ calls = EmptyBag
    /\ last = NoOp

\* Construction alone, over every argument list.
InitNewClient == InitWith(AllArgs)

NextNewClient == NewClientCall

SpecNewClient == InitNewClient /\ [][NextNewClient]_vars

Init == InitWith(ClientArgs)

\* The Event operations of one caller.
NextEvents ==
    \/ NewClientCall
    \/ \E content \in CallerMaps : CallerMakeMap(content)
    \/ \E name \in EventNames, d \in DistinctIDs, p \in 0..Len(heap) :
          NewEvent(name, d, p)
    \/ \E d \in IdentityDistinctIDs, p \in 0..Len(heap), i \in IdentifiedIDs,
          a \in AnonIDs :
          NewIdentityEvent(d, p, i, a)
    \/ \E json \in JsonInputs : NewEventFromJson(json)
    \/ \E e \in 1..Len(events), t \in Times : AddTime(e, t)
    \/ \E e \in 1..Len(events), id \in InsertIDs : AddInsertID(e, id)
    \/ \E e \in 1..Len(events), ip \in IPs : AddIP(e, ip)

SpecEvents == Init /\ [][NextEvents]_vars

\* Events built, enriched, and sent through JSON and back.
NextRoundTrip ==
    \/ NewClientCall
    \/ \E content \in CallerMaps : CallerMakeMap(content)
    \/ \E name \in EventNames, d \in DistinctIDs, p \in 0..Len(heap) :
          NewEvent(name, d, p)
    \/ \E json \in JsonInputs : NewEventFromJson(json)
    \/ \E e \in 1..Len(events), t \in Times : AddTime(e, t)
    \/ \E e \in 1..Len(events) : RoundTrip(e)

SpecRoundTrip == Init /\ [][NextRoundTrip]_vars

\* Fewer than MaxCalls calls are in flight.
Room == BagCardinality(calls) < MaxCalls

\* The calls, up to MaxCalls of them in flight at once.
NextCalls ==
    \/ NewClientCall
    \/ \E evs \in EventBatches : Room /\ TrackStart(evs)
    \/ \E evs \in EventBatches, options \in ImportOptionValues :
          Room /\ ImportStart(evs, options)
    \/ Room /\ ListLookupTablesStart
    \/ \E d \in IdentityDistinctIDs, o \in PeopleOptionLists :
          Room /\ PeopleSetStart(d, PeopleProperties, o)
    \/ \E k \in GroupKeys, g \in GroupIDs : Room /\ GroupDeleteStart(k, g)
    \/ \E call \in BagToSet(calls), outcome \in Outcomes : TrackReturn(call, outcome)
    \/ \E call \in BagToSet(calls), outcome \in Outcomes : ImportReturn(call, outcome)
    \/ \E call \in BagToSet(calls), outcome \in Outcomes :
          ListLookupTablesReturn(call, outcome)
    \/ \E call \in BagToSet(calls), outcome \in Outcomes : PeopleReturn(call, outcome)

SpecCalls == Init /\ [][NextCalls]_vars

\* No call is in flight.
Idle == calls = EmptyBag

\* The calls that return a value, one at a time, against every answer.
NextClassify ==
    \/ NewClientCall
    \/ \E evs \in EventBatches, options \in ImportOptionValues :
          Idle /\ ImportStart(evs, options)
    \/ Idle /\ ListLookupTablesStart
    \/ \E call \in BagToSet(calls), outcome \in AllOutcomes :
          ImportReturn(call, outcome)
    \/ \E call \in BagToSet(calls), outcome \in AllOutcomes :
          ListLookupTablesReturn(call, outcome)

SpecClassify == Init /\ [][NextClassify]_vars

\* A run of Event operations has made no call.
EventsOnly == calls = EmptyBag /\ last.op \notin CallOps

\* A run of calls has built no Event.
CallsOnly == steps = 0 /\ Room

\* Every operation of the client; a run works on Events or makes calls.
Next ==
    \/ NewClientCall
    \/ \E content \in CallerMaps : EventsOnly /\ CallerMakeMap(content)
    \/ \E name \in EventNames, d \in DistinctIDs, p \in 0..Len(heap) :
          EventsOnly /\ NewEvent(name, d, p)
    \/ \E d \in IdentityDistinctIDs, p \in 0..Len(heap), i \in IdentifiedIDs,
          a \in AnonIDs :
          EventsOnly /\ NewIdentityEvent(d, p, i, a)
    \/ \E json \in JsonInputs : EventsOnly /\ NewEventFromJson(json)
    \/ \E e \in 1..Len(events), t \in Times : EventsOnly /\ AddTime(e, t)
    \/ \E e \in 1..Len(events), id \in InsertIDs : EventsOnly /\ AddInsertID(e, id)
    \/ \E e \in 1..Len(events), ip \in IPs : EventsOnly /\ AddIP(e, ip)
    \/ \E evs \in EventBatches : CallsOnly /\ TrackStart(evs)
    \/ \E evs \in EventBatches, options \in ImportOptionValues :
          CallsOnly /\ ImportStart(evs, options)
    \/ CallsOnly /\ ListLookupTablesStart
    \/ \E d \in IdentityDistinctIDs, o \in PeopleOptionLists :
          CallsOnly /\ PeopleSetStart(d, PeopleProperties, o)
    \/ \E k \in GroupKeys, g \in GroupIDs : CallsOnly /\ GroupDeleteStart(k, g)
    \/ \E call \in BagToSet(calls), outcome \in Outcomes : TrackReturn(call, outcome)
    \/ \E call \in BagToSet(calls), outcome \in Outcomes : ImportReturn(call, outcome)
    \/ \E call \in BagToSet(calls), outcome \in Outcomes :
          ListLookupTablesReturn(call, outcome)
    \/ \E call \in BagToSet(calls), outcome \in Outcomes : PeopleReturn(call, outcome)

Spec == Init /\ [][Next]_vars

-----------------------------------------------------------------------------
(* Properties.                                                             *)

Range(seq) == {seq[i] : i \in 1..Len(seq)}

\* The decimal text of the project IDs in use, written out.
DecimalText == (0 :> "0") @@ (7 :> "7") @@ (2834507 :> "2834507") @@ (-15 :> "-15")

\* ---- C10 ----

ConfigDefaults ==
    [client |-> "http.DefaultClient", apiEndpoint |-> "https://api.mixpanel.com",
     dataEndpoint |-> "https://data.mixpanel.com", serviceAccount |-> {},
     debugHttp |-> FALSE]

\* The fields an option writes, and what it writes there.
FieldsWritten(o) ==
    CASE o.opt = "HttpClient" -> {"client"}
      [] o.opt = "EuResidency" -> {"apiEndpoint", "dataEndpoint"}
      [] o.opt = "ProxyApiLocation" -> {"apiEndpoint"}
      [] o.opt = "ProxyDataLocation" -> {"dataEndpoint"}
      [] o.opt = "SetServiceAccount" -> {"serviceAccount"}
      [] o.opt = "DebugHttpCalls" -> {"debugHttp"}

ValueWritten(o, f) ==
    CASE o.opt = "EuResidency" /\ f = "apiEndpoint" -> "https://api-eu.mixpanel.com"
      [] o.opt = "EuResidency" /\ f = "dataEndpoint" -> "https://data-eu.mixpanel"
      [] o.opt = "SetServiceAccount" -> {[Username |-> o.a, Secret |-> o.b]}
      [] o.opt = "DebugHttpCalls" -> TRUE
      [] OTHER -> o.a

LastWriters(options, f) == {i \in 1..Len(options) : f \in FieldsWritten(options[i])}

LastWritten(options, f) ==
    IF LastWriters(options, f) = {} THEN ConfigDefaults[f]
    ELSE ValueWritten(options[CHOOSE i \in LastWriters(options, f) :
                                 \A j \in LastWriters(options, f) : j <= i], f)

\* C10: the client NewClient returns holds the given project ID, token and
\* secret, and in every other field the value written by the last option of
\* the list that writes the field, or the default when none does; so
\* [ProxyApiLocation(p), EuResidency()] ends at the EU API endpoint and
\* [EuResidency(), ProxyApiLocation(p)] at p with the EU data endpoint.
C10_LastOptionWins ==
    mp # Nil =>
        /\ m.projectID = args.projectID
        /\ m.token = args.token
        /\ m.apiSecret = args.secret
        /\ \A f \in DOMAIN ConfigDefaults : m[f] = LastWritten(args.options, f)
        /\ args.options = <<ProxyApiLocation(ProxyURL), EuResidency>>
              => m.apiEndpoint = "https://api-eu.mixpanel.com"
        /\ args.options = <<EuResidency, ProxyApiLocation(ProxyURL)>>
              => /\ m.apiEndpoint = ProxyURL
                 /\ m.dataEndpoint = "https://data-eu.mixpanel"

C10_Witness ==
    /\ mp # Nil
    /\ args.options = <<EuResidency, ProxyApiLocation(ProxyURL)>>
    /\ m.apiEndpoint = ProxyURL
    /\ m.dataEndpoint = "https://data-eu.mixpanel"

\* ---- C3 ----

\* C3: right after NewEvent(name, distinctID, properties) the Event it
\* returned has the given name, token = the client's token, distinct_id =
\* the given ID, mp_lib = "go" and $lib_version = the library version,
\* whatever the caller's map held under those keys, and every other key of
\* the caller's map with its value.
C3_ReservedKeysSet ==
    last.op = "NewEvent" =>
        LET e == events[last.ret]
            props == PropertiesOf(e)
        IN /\ e.Name = last.name
           /\ DOMAIN props = DOMAIN last.pre \cup {"token", "distinct_id", "mp_lib",
                                                    "$lib_version"}
           /\ props["token"] = VString(args.token)
           /\ props["distinct_id"] = VString(last.distinctID)
           /\ props["mp_lib"] = VString("go")
           /\ props["$lib_version"] = VString("v0.0.1")
           /\ \A k \in DOMAIN last.pre \ {"token", "distinct_id", "mp_lib",
                                          "$lib_version"} : props[k] = last.pre[k]

\* NewEvent has returned an Event built on a caller's map that held other
\* values under the reserved keys.
C3_Witness ==
    /\ last.op = "NewEvent"
    /\ last.properties # 0
    /\ "token" \in DOMAIN last.pre
    /\ last.pre["token"] # VString(args.token)
    /\ last.pre["color"] = PropertiesOf(events[last.ret])["color"]

\* ---- C4 ----

HasTokenAndDistinctID(props) ==
    /\ "token" \in DOMAIN props
    /\ props["token"] = VString(args.token)
    /\ "distinct_id" \in DOMAIN props

\* C4 as claimed: the properties of every constructed Event, whichever
\* constructor made it, contain the project token and a distinct identifier.
C4_EveryEventHasTokenAndID ==
    \A i \in 1..Len(events) : HasTokenAndDistinctID(PropertiesOf(events[i]))

\* C4: after any sequence of constructions and enrichments, the properties
\* of every Event made by NewEvent or NewIdentityEvent contain the project
\* token and a distinct identifier.
C4_NewEventsHaveTokenAndID ==
    \A i \in 1..Len(events) :
        events[i].via \in {"NewEvent", "NewIdentityEvent"}
            => HasTokenAndDistinctID(PropertiesOf(events[i]))

\* An Event of NewIdentityEvent and one of NewEventFromJson share a map that
\* has been enriched.
C4_Witness ==
    \E i, j \in 1..Len(events) :
        /\ events[i].via = "NewIdentityEvent"
        /\ events[j].via = "NewEventFromJson"
        /\ events[i].Properties = events[j].Properties
        /\ "time" \in DOMAIN PropertiesOf(events[i])
        /\ PropertiesOf(events[i])["distinct_id"] = VString("user-1")

\* ---- C1 ----

\* The decimal text of the statuses answered, written out.
StatusText ==
    (200 :> "200") @@ (400 :> "400") @@ (401 :> "401") @@ (413 :> "413")
    @@ (429 :> "429") @@ (500 :> "500")

\* The first value of the body is an object whose members, where present,
\* have the JSON types the receiving struct declares.
WellFormed(body, numbers, strings, arrays) ==
    /\ body.syntax \in {"valid", "trailing"}
    /\ body.top = "object"
    /\ \A k \in DOMAIN body.doc :
          /\ k \in numbers => body.doc[k].t = "number"
          /\ k \in strings => body.doc[k].t = "string"
          /\ k \in arrays => body.doc[k].t = "array"

\* The failed_records of a body, as the records the library declares.
FailedRecordsOf(doc) ==
    [i \in 1..Len(ArrayField(doc, "failed_records")) |->
        LET r == ArrayField(doc, "failed_records")[i]
        IN [Index |-> r["index"].n, InsertID |-> r["insert_id"].n,
            Field |-> r["field"].s, Message |-> r["message"].s]]

\* The kind of API error a returned error value tells its receiver.
KindOf(e) ==
    CASE e.type = "ImportFailedValidationError" -> "validation"
      [] e.type = "ImportGenericError" /\ Deref(e.v).Code = 401 -> "unauthorized"
      [] e.type = "ImportGenericError" /\ Deref(e.v).Code = 413 -> "payload-too-large"
      [] e.type = "ImportGenericError" /\ Deref(e.v).Code = 429 -> "rate-limited"
      [] OTHER -> "none"

KindOfStatus == (401 :> "unauthorized") @@ (413 :> "payload-too-large")
                @@ (429 :> "rate-limited")

\* What Import returns for 200, 400 and the statuses it does not know, and
\* that only 200 returns a value; bodies are well formed.
ImportOtherStatuses(status, body) ==
    /\ status = 200 /\ WellFormed(body, {"code", "num_records_imported"}, {}, {})
          => /\ last.err = Nil
             /\ last.ret # Nil
             /\ Deref(last.ret).NumRecordsImported
                    = IntField(body.doc, "num_records_imported")
    /\ status = 400 /\ WellFormed(body, {"code", "num_records_imported"}, {"error"},
                                  {"failed_records"})
          => /\ last.err # Nil
             /\ Deref(last.err).type = "ImportFailedValidationError"
             /\ Deref(Deref(last.err).v).FailedImportRecords
                    = FailedRecordsOf(body.doc)
    /\ status \notin {200, 400, 401, 413, 429}
          => last.err = Ref(ErrorsNew("unexpected status code: " \o StatusText[status]))
    /\ status # 200 => last.ret = Nil /\ last.err # Nil

\* C1 as claimed: with a well-formed body, statuses 401, 413 and 429 return
\* an API error whose kind is unauthorized, payload-too-large and
\* rate-limited respectively; the other statuses as in the rule table.
C1_StatusDecidesKind ==
    (last.op = "Import" /\ last.outcome.response # Nil) =>
        LET status == Deref(last.outcome.response).StatusCode
            body == Deref(last.outcome.response).Body
        IN /\ ImportOtherStatuses(status, body)
           /\ status \in {401, 413, 429} /\ WellFormed(body, {"code"}, {"error"}, {})
                 => /\ last.err # Nil
                    /\ KindOf(Deref(last.err)) = KindOfStatus[status]

\* C1: Import returns, for status 200 with a well-formed body, an
\* ImportSuccess with the body's num_records_imported and a nil error; for
\* 400 an ImportFailedValidationError holding exactly the body's
\* failed_records; for 401, 413 and 429 alike an ImportGenericError whose
\* Code, ApiError and Status are the body's code, error and status, the
\* HTTP status not being part of it; for every other status the error
\* "unexpected status code: <status>"; and a value for status 200 only.
C1_StatusDecidesErrorType ==
    (last.op = "Import" /\ last.outcome.response # Nil) =>
        LET status == Deref(last.outcome.response).StatusCode
            body == Deref(last.outcome.response).Body
        IN /\ ImportOtherStatuses(status, body)
           /\ status \in {401, 413, 429} /\ WellFormed(body, {"code"}, {"error"}, {})
                 => /\ last.err # Nil
                    /\ Deref(last.err).type = "ImportGenericError"
                    /\ Deref(Deref(last.err).v)
                          = [Code |-> IntField(body.doc, "code"),
                             ApiError |-> StringField(body.doc, "error"),
                             Status |-> AnyField(body.doc, "status")]

\* Import has returned, for status 429 with a body that says 401, a generic
\* error that says 401.
C1_Witness ==
    /\ last.op = "Import"
    /\ last.outcome = Responded(429, UnauthorizedBody)
    /\ last.ret = Nil
    /\ Deref(last.err).type = "ImportGenericError"
    /\ Deref(Deref(last.err).v).Code = 401

\* ---- C2 ----

\* The error is the wrapped error of a decoding step.
IsDecodeError(e) ==
    /\ e.type = "*fmt.wrapError"
    /\ e.wraps \in {"json.SyntaxError", "EOF", "json.UnmarshalTypeError"}
    /\ e.v = Nil

\* The statuses whose body a call decodes.
DecodedStatuses(op) ==
    IF op = "Import" THEN {200, 400, 401, 413, 429} ELSE {200, 401}

\* C2 as claimed: for Import and ListLookupTables a response of any status
\* whose body is not JSON returns no value and a decode error.
C2_UnparsableBodyIsDecodeError ==
    (last.op \in {"Import", "ListLookupTables"} /\ last.outcome.response # Nil
        /\ Deref(last.outcome.response).Body.syntax \in {"invalid", "empty"})
    => /\ last.ret = Nil
       /\ last.err # Nil
       /\ IsDecodeError(Deref(last.err))

\* C2: for Import and ListLookupTables, a response with one of the statuses
\* the call decodes (Import: 200, 400, 401, 413, 429; ListLookupTables: 200,
\* 401) whose body is empty, broken or of the wrong types returns no value
\* and the wrapped decoder error, which is neither an API error nor the
\* unexpected-status error; with any other status the body is not read and
\* the unexpected-status error is returned; and text after a complete first
\* JSON value is not looked at.
C2_DecodedStatusesReportDecodeError ==
    (last.op \in {"Import", "ListLookupTables"} /\ last.outcome.response # Nil) =>
        LET status == Deref(last.outcome.response).StatusCode
            body == Deref(last.outcome.response).Body
        IN /\ (status \in DecodedStatuses(last.op)
                 /\ (body.syntax \in {"invalid", "empty"} \/ body = MistypedBody))
              => /\ last.ret = Nil
                 /\ last.err # Nil
                 /\ IsDecodeError(Deref(last.err))
                 /\ Deref(last.err).wraps
                       = (CASE body.syntax = "invalid" -> "json.SyntaxError"
                            [] body.syntax = "empty" -> "EOF"
                            [] OTHER -> "json.UnmarshalTypeError")
                 /\ last.read
           /\ status \notin DecodedStatuses(last.op)
              => /\ last.ret = Nil
                 /\ last.err = Ref(ErrorsNew("unexpected status code: "
                                             \o StatusText[status]))
                 /\ ~IsDecodeError(Deref(last.err))
                 /\ ~last.read
           /\ (last.op = "Import" /\ status = 200 /\ body = TrailingBody)
              => last.ret # Nil /\ last.err = Nil

\* ListLookupTables has returned the decoder's syntax error for a 401 whose
\* body is broken.
C2_Witness ==
    /\ last.op = "ListLookupTables"
    /\ last.outcome = Responded(401, InvalidBody)
    /\ last.ret = Nil
    /\ Deref(last.err).type = "*fmt.wrapError"
    /\ Deref(last.err).wraps = "json.SyntaxError"

\* ---- C7 ----

\* C7: ListLookupTables composes a GET to apiEndpoint + "/lookup-tables"
\* with the one query parameter project_id; status 200 with a well-formed
\* body returns the decoded LookupTable and a nil error, status 401 with a
\* well-formed error body a LookupTableError holding the body's fields,
\* every other status (413 and 429 among them) the error "unexpected status
\* code: <status>"; and the result is nil whenever the error is not.
C7_LookupClassification ==
    /\ \A call \in BagToSet(calls) :
          call.op = "ListLookupTables"
          => /\ call.args.method = "GET"
             /\ call.args.url = m.apiEndpoint \o "/lookup-tables"
             /\ call.args.httpOptions[1]
                   = addQueryParams("project_id" :> <<DecimalText[args.projectID]>>)
    /\ last.op = "ListLookupTables"
       => /\ last.err # Nil => last.ret = Nil
          /\ last.outcome.response # Nil
             => LET status == Deref(last.outcome.response).StatusCode
                    body == Deref(last.outcome.response).Body
                IN /\ status = 200 /\ WellFormed(body, {"code"}, {"status"}, {"results"})
                      => /\ last.err = Nil
                         /\ last.ret
                               = Ref([Code |-> IntField(body.doc, "code"),
                                      Status |-> StringField(body.doc, "status"),
                                      Results |->
                                        [i \in 1..Len(ArrayField(body.doc, "results")) |->
                                           [ID |-> ArrayField(body.doc, "results")[i]["id"].s,
                                            Name |-> ArrayField(body.doc, "results")[i]["name"].s]]])
                   /\ status = 401 /\ WellFormed(body, {"code"}, {"error"}, {})
                      => /\ last.err # Nil
                         /\ Deref(last.err).type = "LookupTableError"
                         /\ Deref(Deref(last.err).v)
                               = [Code |-> IntField(body.doc, "code"),
                                  ApiError |-> StringField(body.doc, "error"),
                                  Status |-> AnyField(body.doc, "status")]
                   /\ status \notin {200, 401}
                      => last.err = Ref(ErrorsNew("unexpected status code: "
                                                  \o StatusText[status]))

\* ListLookupTables has returned the unexpected-status error for a 429 that
\* carries a well-formed error body.
C7_Witness ==
    /\ last.op = "ListLookupTables"
    /\ last.outcome = Responded(429, RateLimitedBody)
    /\ last.ret = Nil
    /\ Deref(last.err).msg = "unexpected status code: 429"

\* ---- C5 ----

\* A service account has been configured on the client.
AccountConfigured ==
    \E i \in 1..Len(args.options) : args.options[i].opt = "SetServiceAccount"

\* C5: of all the calls only Import passes the service-account option to
\* doRequest; a request carries Basic auth only when it is Import's and a
\* service account has been configured, and then that account; Track and
\* ListLookupTables carry none under any configuration; and Import on a
\* client without a service account hands over its one request without auth.
C5_OnlyImportAsksForServiceAccount ==
    \A call \in BagToSet(calls) :
        /\ (useServiceAccount \in Range(call.args.httpOptions)) <=> call.op = "Import"
        /\ call.req.basicAuth # Nil
              => /\ call.op = "Import"
                 /\ AccountConfigured
                 /\ call.req.basicAuth = Ref([Username |-> "sa-user",
                                              Secret |-> "sa-secret"])
        /\ call.op = "Import" /\ AccountConfigured => call.req.basicAuth # Nil
        /\ call.op = "Import" /\ ~AccountConfigured
              => call.req.basicAuth = Nil /\ call.dispatched = 1
        /\ call.op \in {"Track", "ListLookupTables"} => call.req.basicAuth = Nil

\* On a client with a service account an Import is in flight with the
\* account attached next to a Track without it.
C5_Witness ==
    /\ AccountConfigured
    /\ \E c1, c2 \in BagToSet(calls) :
          /\ c1.op = "Import"
          /\ c1.req.basicAuth # Nil
          /\ c2.op = "Track"
          /\ c2.req.basicAuth = Nil

\* ---- C6 ----

\* C6: every Import passes doRequest the method POST, the URL apiEndpoint +
\* "/import", the compression mode of its options, the accept-JSON option,
\* and exactly the query parameters strict ("1" when options.Strict, else
\* "0"), project_id (the project ID in decimal) and verbose ("1"), each
\* with one value.
C6_ImportRequestComposition ==
    \A call \in BagToSet(calls) :
        call.op = "Import"
        => /\ call.args.method = "POST"
           /\ call.args.url = m.apiEndpoint \o "/import"
           /\ call.args.compression = Deref(call.options).Compression
           /\ acceptJson \in Range(call.args.httpOptions)
           /\ acceptPlainText \notin Range(call.args.httpOptions)
           /\ call.args.httpOptions[1].o = "addQueryParams"
           /\ \A i \in 2..Len(call.args.httpOptions) :
                 call.args.httpOptions[i].o # "addQueryParams"
           /\ call.args.httpOptions[1].values
                 = [k \in {"strict", "project_id", "verbose"} |->
                      CASE k = "strict" ->
                             <<IF Deref(call.options).Strict THEN "1" ELSE "0">>
                        [] k = "project_id" -> <<DecimalText[args.projectID]>>
                        [] k = "verbose" -> <<"1">>]

\* A non-strict gzip Import and a strict uncompressed one are in flight on
\* the client of project 2834507.
C6_Witness ==
    /\ args.projectID = 2834507
    /\ \E c1, c2 \in BagToSet(calls) :
          /\ c1.op = "Import"
          /\ c1.options = Ref([Strict |-> FALSE, Compression |-> Gzip])
          /\ c1.args.httpOptions[1].values["strict"] = <<"0">>
          /\ c1.args.httpOptions[1].values["project_id"] = <<"2834507">>
          /\ c2.op = "Import"
          /\ c2.options = Ref([Strict |-> TRUE, Compression |-> None])
          /\ c2.args.httpOptions[1].values["strict"] = <<"1">>

\* ---- C8 ----

\* C8: a call of Track, Import or ListLookupTables hands doRequest one
\* request, whatever is answered; and when doRequest fails the call returns
\* no value and an error made of the transport error, having neither read
\* nor classified a response.
C8_NoRetries ==
    /\ \A call \in BagToSet(calls) : call.dispatched <= 1
    /\ last.op \in {"Track", "Import", "ListLookupTables"}
       => /\ last.dispatched <= 1
          /\ last.outcome.response = Nil
             => /\ last.ret = Nil
                /\ last.err # Nil
                /\ Deref(last.err).v = Nil
                /\ Deref(last.err)
                     = (CASE last.op = "Track" ->
                               WrapError("failed to track event: ", last.outcome.err)
                          [] last.op = "Import" ->
                               WrapError("failed to import:", last.outcome.err)
                          [] last.op = "ListLookupTables" ->
                               ErrorsNew("failed to call list lookup tables: "
                                         \o last.outcome.err))
                /\ ~last.read
                /\ last.closed = 0

\* Import has returned after a 429, having handed over one request, while
\* another call is still waiting.
C8_Witness ==
    /\ last.op = "Import"
    /\ last.outcome = Responded(429, RateLimitedBody)
    /\ last.dispatched = 1
    /\ last.err # Nil
    /\ calls # EmptyBag

\* ---- C9 ----

\* C9: once NewClient has returned, no operation changes the client: the
\* configuration stays the one NewClient made from its arguments, and the
\* request of every call in flight is the one composed from the call's
\* arguments and that configuration.
C9_ConfigurationImmutable ==
    /\ [][mp # Nil => mp' = mp]_vars
    /\ [](mp # Nil =>
            /\ m.projectID = args.projectID
            /\ m.token = args.token
            /\ m.apiSecret = args.secret
            /\ \A f \in DOMAIN ConfigDefaults : m[f] = LastWritten(args.options, f)
            /\ \A call \in BagToSet(calls) :
                  /\ call.req = ComposeRequest(m, call.args)
                  /\ call.args.url \in {m.apiEndpoint \o u :
                        u \in {"/track", "/import", "/engage#profile-set",
                               "/groups#group-delete", "/lookup-tables"}})

\* Two calls are in flight at once on a constructed client, one of them an
\* Import.
C9_Witness ==
    /\ mp # Nil
    /\ BagCardinality(calls) = 2
    /\ \E c1, c2 \in BagToSet(calls) : c1.op = "Import" /\ c2.op = "Track"

\* ---- C11 ----

\* The raw map lacks a string under "event" or a map under "properties".
Malformed(json) ==
    \/ "event" \notin DOMAIN json
    \/ json["event"].t # "string"
    \/ "properties" \notin DOMAIN json
    \/ json["properties"].t # "map"

\* NewEventFromJson, called directly or at the end of a round trip, returns
\* an error and no Event exactly when the map is malformed, and otherwise
\* an Event holding the map's name and its properties map itself.
ParsesWellFormedOnly ==
    last.op \in {"NewEventFromJson", "RoundTrip"} =>
        /\ last.err # Nil <=> Malformed(last.json)
        /\ last.err # Nil
              => /\ last.ret = 0
                 /\ last.err \in {Ref("event name is not a string or is missing"),
                                  Ref("event properties is not a map or is missing")}
        /\ last.err = Nil
              => /\ last.ret = Len(events)
                 /\ events[last.ret].Name = last.json["event"].s
                 /\ events[last.ret].Properties = last.json["properties"].n

\* Two property maps hold the same JSON: the same keys, and under each key
\* the same string or the same number.
SameJson(p, q) ==
    /\ DOMAIN p = DOMAIN q
    /\ \A k \in DOMAIN p :
          /\ (p[k].t = "string") <=> (q[k].t = "string")
          /\ p[k].s = q[k].s
          /\ p[k].n = q[k].n

\* C11 as claimed: NewEventFromJson rejects exactly the malformed maps, and
\* applied to the map form of any serialized Event it returns an Event of
\* the same name and the same properties.
C11_RoundTripRecoversAnyEvent ==
    /\ ParsesWellFormedOnly
    /\ last.op = "RoundTrip"
          => /\ last.err = Nil
             /\ events[last.ret].Name = events[last.event].Name
             /\ SameJson(PropertiesOf(events[last.ret]),
                         PropertiesOf(events[last.event]))

\* C11: NewEventFromJson returns an error and no Event exactly when "event"
\* is missing or not a string or "properties" is missing or not a map, and
\* otherwise an Event with those two fields; applied to the map form of a
\* serialized Event whose Properties map is not nil it returns an Event of
\* the same name with a new map of the same keys, strings unchanged and
\* integers as float64 of the same number; an Event whose Properties map is
\* nil serializes to properties null and is rejected.
C11_RoundTripRecoversNonNilEvent ==
    /\ ParsesWellFormedOnly
    /\ (last.op = "RoundTrip" /\ events[last.event].Properties # 0)
          => /\ last.err = Nil
             /\ events[last.ret].Name = events[last.event].Name
             /\ events[last.ret].Properties # events[last.event].Properties
             /\ DOMAIN PropertiesOf(events[last.ret])
                   = DOMAIN PropertiesOf(events[last.event])
             /\ \A k \in DOMAIN PropertiesOf(events[last.event]) :
                   LET v == PropertiesOf(events[last.event])[k]
                   IN PropertiesOf(events[last.ret])[k]
                         = IF v.t = "string" THEN v ELSE VFloat64(v.n)
    /\ (last.op = "RoundTrip" /\ events[last.event].Properties = 0)
          => /\ last.err = Ref("event properties is not a map or is missing")
             /\ last.ret = 0

\* An Event enriched with a time has come back from its round trip with the
\* time as a float64.
C11_Witness ==
    /\ last.op = "RoundTrip"
    /\ last.err = Nil
    /\ events[last.event].via = "NewEvent"
    /\ PropertiesOf(events[last.event])["distinct_id"] = VString("user-1")
    /\ "time" \in DOMAIN PropertiesOf(events[last.event])
    /\ PropertiesOf(events[last.event])["time"].t = "int64"
    /\ PropertiesOf(events[last.ret])["time"].t = "float64"

\* ---- C12 ----

\* C12: when Track, Import or ListLookupTables returns after doRequest gave
\* it a response, it has closed the response body exactly once, whichever
\* way it returns (value, API error, decode error, unexpected status); when
\* doRequest gave it an error, it has read and closed nothing.
C12_BodyClosedOnce ==
    last.op \in {"Track", "Import", "ListLookupTables"} =>
        /\ last.outcome.response # Nil => last.closed = 1
        /\ last.outcome.response = Nil => last.closed = 0 /\ ~last.read

\* ListLookupTables has returned the unexpected-status error for a 500
\* without reading the body, and closed it.
C12_Witness ==
    /\ last.op = "ListLookupTables"
    /\ last.outcome = Responded(500, InvalidBody)
    /\ last.err # Nil
    /\ ~last.read
    /\ last.closed = 1

\* ---- C13 ----

\* The Events holding the map at the address.
EventsOn(addr) == {i \in 1..Len(events) : events[i].Properties = addr}

\* What holds right after NewEvent and after an enrichment.
SharedMapState ==
    /\ (last.op = "NewEvent" /\ last.properties # 0)
          => /\ events[last.ret].Properties = last.properties
             /\ ReservedKeys \subseteq DOMAIN heap[last.properties]
             /\ \A i \in EventsOn(last.properties) :
                   PropertiesOf(events[i])["distinct_id"] = VString(last.distinctID)
    /\ (last.op = "NewEvent" /\ last.properties = 0)
          => /\ events[last.ret].Properties = Len(heap)
             /\ EventsOn(events[last.ret].Properties) = {last.ret}
             /\ PropertiesOf(events[last.ret])["distinct_id"]
                   = VString(last.distinctID)
    /\ (last.op \in {"AddTime", "AddInsertID", "AddIP"} /\ ~last.panic)
          => LET k == CASE last.op = "AddTime" -> "time"
                        [] last.op = "AddInsertID" -> "$insert_id"
                        [] last.op = "AddIP" -> "ip"
             IN \A i \in EventsOn(events[last.event].Properties) :
                   /\ k \in DOMAIN PropertiesOf(events[i])
                   /\ PropertiesOf(events[i])[k] = PropertiesOf(events[last.event])[k]

\* An enrichment of an Event, or a NewEvent, changes no map but the one
\* the Event holds.
OtherMapsKept ==
    \A a \in 1..Len(heap) :
        \/ heap'[a] = heap[a]
        \/ /\ last'.op \in {"AddTime", "AddInsertID", "AddIP"}
           /\ a = events[last'.event].Properties
        \/ /\ last'.op \in {"NewEvent", "NewIdentityEvent"}
           /\ a = last'.properties

\* C13: NewEvent on a caller's map returns an Event holding that very map,
\* which now has the four reserved keys, so every Event on that map, the
\* earlier ones too, reports the distinct_id just given; NewEvent on nil
\* returns an Event on a new map that no other Event holds; a key set by
\* AddTime, AddInsertID or AddIP through one Event reads the same through
\* every Event on its map; and no operation changes any other map.
C13_NewEventSharesCallerMap ==
    /\ []SharedMapState
    /\ [][OtherMapsKept]_vars

\* Two Events of NewEvent on one caller's map both report the distinct_id
\* "user-1" and both show the time added through the first.
C13_Witness ==
    /\ last.op = "AddTime"
    /\ last.event = 1
    /\ Len(events) = 2
    /\ events[1].via = "NewEvent"
    /\ events[2].via = "NewEvent"
    /\ events[1].Properties = events[2].Properties
    /\ PropertiesOf(events[1])["distinct_id"] = VString("user-1")
    /\ "time" \in DOMAIN PropertiesOf(events[2])

=============================================================================
